---- MODULE Spec2Model ----
(***************************************************************************)
(* ErriezBMX280: BMP280/BME280 driver (ErriezBMX280.cpp, ErriezBMX280.h).  *)
(*                                                                         *)
(* The model has three layers:                                             *)
(*   1. fixed-width two's-complement arithmetic on little-endian byte      *)
(*      sequences (int32_t is 4 bytes, int64_t is 8 bytes), because the    *)
(*      compensation formulas need 32x32 and 64x64 bit products;           *)
(*   2. the device (register file) and the Wire transport;                 *)
(*   3. the driver object and its public methods.                          *)
(***************************************************************************)
EXTENDS Integers, Sequences, FiniteSets, TLC

(***************************************************************************)
(* 1. Fixed-width arithmetic.  A value of n bytes is a sequence of n       *)
(* numbers in 0..255, least significant byte first; every operation is     *)
(* taken modulo 2^(8n), as the target's two's-complement hardware does.    *)
(***************************************************************************)
\* A function on 1..n, built as a tuple.
Bytes(f) == <<>> \o f

\* 2^k for k in 0..30.
Pow2(k) ==
    <<1, 2, 4, 8, 16, 32, 64, 128, 256, 512, 1024, 2048, 4096, 8192, 16384,
      32768, 65536, 131072, 262144, 524288, 1048576, 2097152, 4194304,
      8388608, 16777216, 33554432, 67108864, 134217728, 268435456,
      536870912, 1073741824>>[k + 1]

\* int32_t x (a model integer in -2^31 .. 2^31-1) as n >= 4 bytes, sign-extended.
ToBytes(x, n) ==
    Bytes([i \in 1..n |-> IF i <= 4 THEN (x \div Pow2(8 * (i - 1))) % 256
                          ELSE IF x < 0 THEN 255 ELSE 0])

IsNeg(a) == a[Len(a)] >= 128

IsZero(a) == \A i \in 1..Len(a) : a[i] = 0

\* The low four bytes of a, read as an int32_t.
ToInt32(a) ==
    (IF a[4] >= 128 THEN a[4] - 256 ELSE a[4]) * 16777216
        + a[3] * 65536 + a[2] * 256 + a[1]

\* (int64_t)a for a 4-byte a: sign extension.
SignExtend(a, n) ==
    Bytes([i \in 1..n |-> IF i <= Len(a) THEN a[i]
                          ELSE IF IsNeg(a) THEN 255 ELSE 0])

\* (int32_t)a for an 8-byte a: truncation.
Truncate(a, n) == Bytes([i \in 1..n |-> a[i]])

\* True when the n-byte value fits an int32_t.
FitsInt32(a) == a = SignExtend(Truncate(a, 4), Len(a))

RECURSIVE AddFrom(_, _, _, _)
AddFrom(a, b, i, carry) ==
    IF i > Len(a) THEN <<>>
    ELSE LET s == a[i] + b[i] + carry
         IN  <<s % 256>> \o AddFrom(a, b, i + 1, s \div 256)

AddW(a, b) == AddFrom(a, b, 1, 0)

NotW(a) == Bytes([i \in 1..Len(a) |-> 255 - a[i]])

Zero(n) == Bytes([i \in 1..n |-> 0])

NegW(a) == AddFrom(NotW(a), Zero(Len(a)), 1, 1)

SubW(a, b) == AddFrom(a, NotW(b), 1, 1)

RECURSIVE ColSum(_, _, _, _)
ColSum(a, b, k, i) ==
    IF i > k THEN 0 ELSE a[i] * b[k + 1 - i] + ColSum(a, b, k, i + 1)

RECURSIVE MulFrom(_, _, _, _)
MulFrom(a, b, k, carry) ==
    IF k > Len(a) THEN <<>>
    ELSE LET s == ColSum(a, b, k, 1) + carry
         IN  <<s % 256>> \o MulFrom(a, b, k + 1, s \div 256)

\* a * b truncated to the width of a: the same bytes for signed and unsigned.
MulW(a, b) == MulFrom(a, b, 1, 0)

\* a << k
ShlW(a, k) ==
    LET q == k \div 8
        r == k % 8
        src(j) == IF j < 1 THEN 0 ELSE a[j]
    IN  Bytes([i \in 1..Len(a) |->
            ((src(i - q) * Pow2(r)) % 256) + ((src(i - q - 1) * Pow2(r)) \div 256)])

\* a >> k on a signed value: arithmetic shift, the sign bit is copied in.
SarW(a, k) ==
    LET q == k \div 8
        r == k % 8
        src(j) == IF j > Len(a) THEN (IF IsNeg(a) THEN 255 ELSE 0) ELSE a[j]
    IN  Bytes([i \in 1..Len(a) |->
            (src(i + q) \div Pow2(r)) + ((src(i + q + 1) * Pow2(8 - r)) % 256)])

\* a >> k on an unsigned value: logical shift, zeros are shifted in.
ShrW(a, k) ==
    LET q == k \div 8
        r == k % 8
        src(j) == IF j > Len(a) THEN 0 ELSE a[j]
    IN  Bytes([i \in 1..Len(a) |->
            (src(i + q) \div Pow2(r)) + ((src(i + q + 1) * Pow2(8 - r)) % 256)])

RECURSIVE GeqFrom(_, _, _)
GeqFrom(a, b, i) ==
    IF i = 0 THEN TRUE
    ELSE IF a[i] # b[i] THEN a[i] > b[i]
    ELSE GeqFrom(a, b, i - 1)

\* a >= b, both unsigned.
UGeq(a, b) == GeqFrom(a, b, Len(a))

\* a > b, both signed, b given as an int32_t model integer.
SGreater(a, b) ==
    LET d == SubW(SignExtend(ToBytes(b, 4), Len(a)), a)
    IN  IsNeg(d)

Bit(a, k) == (a[(k \div 8) + 1] \div Pow2(k % 8)) % 2

\* The value of an unsigned a that is below 2^31, as a model integer.
Small(a) == a[4] * 16777216 + a[3] * 65536 + a[2] * 256 + a[1]

\* Unsigned long division of a by the model integer d, 0 < d <= 2^30, one bit
\* of a per step from bit k of byte j down to bit 0 of that byte: q is the
\* part of the quotient byte so far, rem the remainder so far (rem < d, so
\* that 2 * rem + 1 needs no more than 31 bits).  The result is <<q, rem>>.
RECURSIVE DivBits(_, _, _, _, _, _)
DivBits(a, d, j, k, q, rem) ==
    IF k < 0 THEN <<q, rem>>
    ELSE LET r1 == 2 * rem + Bit(a, 8 * (j - 1) + k)
         IN  IF r1 >= d THEN DivBits(a, d, j, k - 1, 2 * q + 1, r1 - d)
             ELSE DivBits(a, d, j, k - 1, 2 * q, r1)

\* The same from byte j down to byte 1: <<quotient bytes 1..j, remainder>>.
RECURSIVE DivBytes(_, _, _, _)
DivBytes(a, d, j, rem) ==
    IF j = 0 THEN <<<<>>, rem>>
    ELSE LET here == DivBits(a, d, j, 7, 0, rem)
             rest == DivBytes(a, d, j - 1, here[2])
         IN  <<Append(rest[1], here[1]), rest[2]>>

\* a / b on signed values, b # 0: the quotient is truncated towards zero.
\* The divisor of the driver's one division is a 64-bit value shifted right
\* by 33, so its magnitude is at most 2^30.
SDivW(a, b) ==
    LET ua == IF IsNeg(a) THEN NegW(a) ELSE a
        ub == IF IsNeg(b) THEN NegW(b) ELSE b
        uq == DivBytes(ua, Small(ub), Len(a), 0)[1]
    IN  IF IsNeg(a) # IsNeg(b) THEN NegW(uq) ELSE uq

I32(x) == ToBytes(x, 4)

I64(x) == ToBytes(x, 8)

\* (float)a for a signed integer a: a float carries 24 significant bits, so a
\* wider magnitude is rounded to the nearest multiple of 2^s, ties to even.
RECURSIVE BitLen(_, _)
BitLen(a, k) == IF k < 0 THEN 0 ELSE IF Bit(a, k) = 1 THEN k + 1 ELSE BitLen(a, k - 1)

FloatOfInt(a) ==
    LET n    == Len(a)
        one  == Bytes([i \in 1..n |-> IF i = 1 THEN 1 ELSE 0])
        m    == IF IsNeg(a) THEN NegW(a) ELSE a
        s    == BitLen(m, 8 * n - 1) - 24
        q    == ShrW(m, s)
        rest == SubW(m, ShlW(q, s))
        half == ShlW(one, s - 1)
        up   == IF rest = half THEN Bit(q, 0) = 1 ELSE UGeq(rest, half)
        r    == ShlW(IF up THEN AddW(q, one) ELSE q, s)
    IN  IF s <= 0 THEN a ELSE IF IsNeg(a) THEN NegW(r) ELSE r

(***************************************************************************)
(* Compensation formulas (datasheet 4.2.3) as the driver computes them.    *)
(* dig is the record of calibration coefficients held by the driver, each  *)
(* a model integer in the range of its C type.                             *)
(***************************************************************************)

\* readTemperature after the register read: raw is the uint32_t returned by
\* read24.  temperature is the int32_t assigned to the float; the method
\* returns temperature / 100.0.
CompensateT(raw, cal) ==
    LET adc_T == SarW(raw, 4)
        var1  == SarW(MulW(SubW(SarW(adc_T, 3), ShlW(I32(cal.T1), 1)),
                           I32(cal.T2)), 11)
        d     == SubW(SarW(adc_T, 4), I32(cal.T1))
        var2  == SarW(MulW(SarW(MulW(d, d), 12), I32(cal.T3)), 14)
        tf    == AddW(var1, var2)
    IN  [t_fine      |-> ToInt32(tf),
         temperature |-> ToInt32(SarW(AddW(MulW(tf, I32(5)), I32(128)), 8))]

\* The divisor intermediate of readPressure (var1 after line 152).
PressureVar1(tfine, cal) ==
    LET v  == SubW(I64(tfine), I64(128000))
        v1 == AddW(SarW(MulW(MulW(v, v), I64(cal.P3)), 8),
                   ShlW(MulW(v, I64(cal.P2)), 12))
    IN  SarW(MulW(AddW(ShlW(I64(1), 47), v1), I64(cal.P1)), 33)

\* var2 of readPressure after line 150.
PressureVar2(tfine, cal) ==
    LET v  == SubW(I64(tfine), I64(128000))
        a  == MulW(MulW(v, v), I64(cal.P6))
        b  == AddW(a, ShlW(MulW(v, I64(cal.P5)), 17))
    IN  AddW(b, ShlW(I64(cal.P4), 35))

\* readPressure without the guard.
NoZeroDivisor(var1) == FALSE

\* The guard of readPressure: TRUE when the method returns before dividing.
ZeroDivisor(var1) == IsZero(var1)

\* Lines 157-162 of readPressure: the int64_t p that is returned as
\* (float)p / 256.  A zero divisor leaves the quotient undefined; the model
\* keeps the dividend, and records the division in the trace of the call.
PressureP(raw, var1, var2, cal) ==
    LET adc_P == SarW(raw, 4)
        p0    == SignExtend(SubW(I32(1048576), adc_P), 8)
        num   == MulW(SubW(ShlW(p0, 31), var2), I64(3125))
        p1    == IF IsZero(var1) THEN num ELSE SDivW(num, var1)
        w1    == SarW(MulW(MulW(I64(cal.P9), SarW(p1, 13)), SarW(p1, 13)), 25)
        w2    == SarW(MulW(I64(cal.P8), p1), 19)
    IN  AddW(SarW(AddW(AddW(p1, w1), w2), 8), ShlW(I64(cal.P7), 4))

\* readPressure after the register reads.  divided tells whether line 158 ran,
\* divisor is var1 at that point, num / 256 is the float returned.
CompensateP(tfine, raw, cal) ==
    LET var1 == PressureVar1(tfine, cal)
        var2 == PressureVar2(tfine, cal)
    IN  IF ZeroDivisor(var1)
        THEN [divided |-> FALSE, divisor |-> var1, num |-> I64(0)]
        ELSE [divided |-> TRUE, divisor |-> var1,
              num |-> FloatOfInt(PressureP(raw, var1, var2, cal))]

\* v_x1_u32r of readHumidity before the clamp (lines 204-215).
HumidityPre(tfine, adc_H, cal) ==
    LET v  == SubW(I32(tfine), I32(76800))
        a  == SarW(AddW(SubW(SubW(ShlW(I32(adc_H), 14), ShlW(I32(cal.H4), 20)),
                             MulW(I32(cal.H5), v)), I32(16384)), 15)
        b1 == SarW(MulW(v, I32(cal.H6)), 10)
        b2 == AddW(SarW(MulW(v, I32(cal.H3)), 11), I32(32768))
        b3 == AddW(SarW(MulW(b1, b2), 10), I32(2097152))
        b  == SarW(AddW(MulW(b3, I32(cal.H2)), I32(8192)), 14)
        x  == MulW(a, b)
        y  == SarW(MulW(SarW(MulW(SarW(x, 15), SarW(x, 15)), 7), I32(cal.H1)), 4)
    IN  ToInt32(SubW(x, y))

HumidityMax == 419430400

\* The clamp without its upper bound.
ClampHLow(v) == IF v < 0 THEN 0 ELSE v

\* Lines 217-218 of readHumidity.
ClampH(v) ==
    LET lo == IF v < 0 THEN 0 ELSE v
    IN  IF lo > HumidityMax THEN HumidityMax ELSE lo

\* Line 220: humidity = v_x1_u32r >> 12; the method returns humidity / 1024.0.
ScaleH(v) == v \div 4096

(***************************************************************************)
(* Bit operations on non-negative model integers.                          *)
(***************************************************************************)
RECURSIVE BitOr(_, _)
BitOr(x, y) ==
    IF x = 0 THEN y
    ELSE IF y = 0 THEN x
    ELSE (IF x % 2 = 1 \/ y % 2 = 1 THEN 1 ELSE 0) + 2 * BitOr(x \div 2, y \div 2)

RECURSIVE BitAnd(_, _)
BitAnd(x, y) ==
    IF x = 0 \/ y = 0 THEN 0
    ELSE (IF x % 2 = 1 /\ y % 2 = 1 THEN 1 ELSE 0) + 2 * BitAnd(x \div 2, y \div 2)

OrW(a, b) == Bytes([i \in 1..Len(a) |-> BitOr(a[i], b[i])])

\* Conversions to the C types of the coefficients.
U8(x) == x % 256

U16(x) == x % 65536

S8(x) == IF U8(x) >= 128 THEN U8(x) - 256 ELSE U8(x)

S16(x) == IF U16(x) >= 32768 THEN U16(x) - 65536 ELSE U16(x)

(***************************************************************************)
(* 2. Register map (ErriezBMX280.h) and the device behind it.              *)
(***************************************************************************)
BMX280_REG_DIG_T1 == 136
BMX280_REG_DIG_T2 == 138
BMX280_REG_DIG_T3 == 140
BMX280_REG_DIG_P1 == 142
BMX280_REG_DIG_P2 == 144
BMX280_REG_DIG_P3 == 146
BMX280_REG_DIG_P4 == 148
BMX280_REG_DIG_P5 == 150
BMX280_REG_DIG_P6 == 152
BMX280_REG_DIG_P7 == 154
BMX280_REG_DIG_P8 == 156
BMX280_REG_DIG_P9 == 158
BME280_REG_DIG_H1 == 161
BME280_REG_DIG_H2 == 225
BME280_REG_DIG_H3 == 227
BME280_REG_DIG_H4 == 228
BME280_REG_DIG_H5 == 229
BME280_REG_DIG_H6 == 231
BME280_REG_CHIPID == 208
BME280_REG_RESET == 224
BME280_REG_CTRL_HUM == 242
BMX280_REG_STATUS == 243
BMX280_REG_CTRL_MEAS == 244
BMX280_REG_CONFIG == 245
BMX280_REG_PRESS == 247
BMX280_REG_TEMP == 250
BME280_REG_HUM == 253
CHIP_ID_BMP280 == 88
CHIP_ID_BME280 == 96
RESET_KEY == 182
STATUS_IM_UPDATE == 0

BMX280_MODE_SLEEP == 0
BMX280_MODE_FORCED == 1
BMX280_MODE_NORMAL == 3
BMX280_SAMPLING_X16 == 5
BMX280_FILTER_OFF == 0
BMX280_FILTER_X16 == 4
BMX280_STANDBY_MS_0_5 == 0
BMX280_STANDBY_MS_500 == 4

\* The values of the enumerations of ErriezBMX280.h.
BMX280_Mode_e == {BMX280_MODE_SLEEP, BMX280_MODE_FORCED, BMX280_MODE_NORMAL}
BMX280_Sampling_e == 0..5
BMX280_Filter_e == 0..4
BMX280_Standby_e == 0..7

CalRegs == (136..159) \cup {161} \cup (225..231)
CtrlRegs == {BME280_REG_CTRL_HUM, BMX280_REG_CTRL_MEAS, BMX280_REG_CONFIG}
DataRegs == 247..254
Regs == CalRegs \cup CtrlRegs \cup DataRegs \cup {BME280_REG_CHIPID, BMX280_REG_STATUS}

\* Calibration memories of two devices: registers 0x88..0x9F, then 0xA1 and
\* 0xE1..0xE7.  The first holds the coefficients of the datasheet's worked
\* example, the second holds extreme values (dig_P1 = 0, negative dig_H2).
CalImages ==
    << <<112, 107, 67, 103, 24, 252, 125, 142, 67, 214, 208, 11, 39, 11, 140, 0,
         249, 255, 140, 60, 248, 198, 112, 23, 75, 111, 1, 0, 18, 45, 3, 30>>,
       <<255, 255, 0, 128, 255, 127, 0, 0, 255, 255, 255, 127, 0, 128, 2, 1,
         254, 255, 116, 195, 1, 0, 144, 232, 255, 254, 255, 255, 128, 55, 127, 128>> >>

CalByte(img, reg) ==
    IF reg <= 159 THEN img[reg - 135]
    ELSE IF reg = 161 THEN img[25]
    ELSE img[reg - 225 + 26]

\* Raw conversion results: pressure (3 bytes), temperature (3 bytes) and
\* humidity (2 bytes), most significant byte first, as registers 0xF7..0xFE
\* hold them: the content after a reset, and a conversion at 25 C and 1006 hPa
\* with the humidity channel at full scale.
ResetSample == <<128, 0, 0, 128, 0, 0, 128, 0>>

Samples == {ResetSample, <<101, 90, 192, 126, 237, 0, 255, 255>>}

\* The devices considered, as <<identity register, index in CalImages>>: a
\* BME280, a BMP280, and a chip that is neither.
Devices == {<<CHIP_ID_BME280, 1>>, <<CHIP_ID_BMP280, 2>>, <<0, 1>>}

Builds == {"LR", "RL"}

ModeBits(ctrl_meas) == ctrl_meas % 4

\* The register file after power-on of a device with the given identity,
\* calibration memory and first conversion result.
DevPowerOn(id, img) ==
    [r \in Regs |->
        IF r \in CalRegs THEN CalByte(img, r)
        ELSE IF r = BME280_REG_CHIPID THEN id
        ELSE IF r \in DataRegs THEN ResetSample[r - 246]
        ELSE 0]

\* The register file with the conversion result s in the data registers.
DevStore(m, s) == [r \in Regs |-> IF r \in DataRegs THEN s[r - 246] ELSE m[r]]

\* Soft reset: the control registers and data registers take their reset
\* values and im_update is set while the NVM is copied.
DevReset(m) ==
    [r \in Regs |->
        IF r \in CtrlRegs THEN 0
        ELSE IF r = BMX280_REG_STATUS THEN Pow2(STATUS_IM_UPDATE)
        ELSE IF r \in DataRegs THEN ResetSample[r - 246]
        ELSE m[r]]

\* The effect on the device of a completed write of val to reg.  ctrl_hum
\* exists on the BME280 only; config is writable in sleep mode only.
DevWrite(m, reg, val) ==
    IF reg = BME280_REG_RESET
    THEN IF val = RESET_KEY THEN DevReset(m) ELSE m
    ELSE IF reg = BMX280_REG_CTRL_MEAS THEN [m EXCEPT ![reg] = val]
    ELSE IF reg = BME280_REG_CTRL_HUM
    THEN IF m[BME280_REG_CHIPID] = CHIP_ID_BME280 THEN [m EXCEPT ![reg] = val] ELSE m
    ELSE IF reg = BMX280_REG_CONFIG
    THEN IF ModeBits(m[BMX280_REG_CTRL_MEAS]) = BMX280_MODE_SLEEP
         THEN [m EXCEPT ![reg] = val] ELSE m
    ELSE m

(***************************************************************************)
(* The Wire transport.  A transaction either completes or fails at         *)
(* endTransmission; after a failure no byte is received and Wire.read()    *)
(* returns -1.  A bus record is kept of every transaction of a call.       *)
(***************************************************************************)
\* The n results of Wire.read() after requestFrom(n) at register reg.
WireRead(m, reg, n, ok) ==
    Bytes([i \in 1..n |-> IF ok THEN m[reg + i - 1] ELSE -1])

\* uint8_t read8(reg)
read8(m, reg, ok) ==
    IF ~ok THEN 0 ELSE U8(WireRead(m, reg, 1, ok)[1])

\* uint16_t read16(reg): (Wire.read() << 8) | Wire.read().  The two calls are
\* not sequenced by the language; build "LR" evaluates the left operand
\* first, build "RL" the right one.
read16(m, reg, ok, b) ==
    LET w == WireRead(m, reg, 2, ok)
        left  == IF b = "LR" THEN w[1] ELSE w[2]
        right == IF b = "LR" THEN w[2] ELSE w[1]
    IN  IF ~ok THEN 0 ELSE U16(BitOr(left * 256, right))

\* uint16_t read16_LE(reg): the two bytes of read16 swapped.
read16_LE(m, reg, ok, b) ==
    LET value == read16(m, reg, ok, b)
    IN  U16(BitOr(value \div 256, U16(value * 256)))

\* int16_t readS16_LE(reg)
readS16_LE(m, reg, ok, b) == S16(read16_LE(m, reg, ok, b))

\* uint32_t read24(reg), as 4 bytes.  The result of endTransmission is not
\* looked at.
read24(m, reg, ok) ==
    LET w  == WireRead(m, reg, 3, ok)
        v1 == I32(w[1])
        v2 == OrW(ShlW(v1, 8), I32(w[2]))
    IN  OrW(ShlW(v2, 8), I32(w[3]))

\* Bus records: val is the value the read returned to the driver, or the value
\* the write sent.
RdTxn(reg, n, ok, val) == [op |-> "read", reg |-> reg, len |-> n, ok |-> ok, val |-> val]

WrTxn(reg, val, ok) == [op |-> "write", reg |-> reg, len |-> 1, ok |-> ok, val |-> val]

\* write8(reg, value): the bus record and the register file afterwards.
write8(m, reg, value, ok) ==
    [txn |-> WrTxn(reg, U8(value), ok),
     mem |-> IF ok THEN DevWrite(m, reg, U8(value)) ELSE m]

\* Latest position in a call at which the transport starts to fail.
MaxFailAt == 1

\* The transactions of a call of n that fail: none, or all from the k-th on.
FailFrom(n) == {{}} \cup {k..n : k \in 1..(IF n < MaxFailAt THEN n ELSE MaxFailAt)}

(***************************************************************************)
(* 3. The driver object.                                                   *)
(***************************************************************************)
VARIABLES
    pc,       \* position of the caller: "idle", or the step begin() is at
    chipID,   \* _chipID
    t_fine,   \* _t_fine
    dig,      \* _dig_T1 .. _dig_H6
    build,    \* evaluation order the compiler chose: "LR" or "RL"
    mem,      \* the register file of the device
    bus,      \* bus records of the current (or the last) call, in order
    call,     \* the current (or the last) call and what it returned
    calc      \* intermediates of the last compensation

vars == <<pc, chipID, t_fine, dig, build, mem, bus, call, calc>>

\* Most busy polls of the status register kept in the bus record of one begin().
MaxPolls == 2

\* The loop condition with the polarity of the bit inverted.
ImUpdateInverted(status) == BitAnd(status, Pow2(STATUS_IM_UPDATE)) = 0

\* The condition of the loop at line 70: read8(status) & (1 << im_update).
ImUpdate(status) == BitAnd(status, Pow2(STATUS_IM_UPDATE)) # 0

\* begin() without the check of the identity.
IsRecognizedAlways(id) == TRUE

\* The identities begin() goes on with (the negation of line 60).
IsRecognized(id) == ~((id # CHIP_ID_BMP280) /\ (id # CHIP_ID_BME280))

\* The humidity test taken for the test of a known chip.
IsHumidityChipLoose(id) == id \in {CHIP_ID_BMP280, CHIP_ID_BME280}

\* _chipID == CHIP_ID_BME280, the test before every access to the humidity
\* registers.
IsHumidityChip(id) == id = CHIP_ID_BME280

\* The registers readCoefficients reads, in the order it reads them.  dig_H4
\* and dig_H5 are each the | of two read8 calls, which the build orders.
CoefPlan(id, b) ==
    [i \in 1..12 |-> [reg |-> BMX280_REG_DIG_T1 + 2 * (i - 1), len |-> 2]]
    \o (IF ~IsHumidityChip(id) THEN <<>>
        ELSE << [reg |-> BME280_REG_DIG_H1, len |-> 1],
                [reg |-> BME280_REG_DIG_H2, len |-> 2],
                [reg |-> BME280_REG_DIG_H3, len |-> 1] >>
             \o (IF b = "LR"
                 THEN << [reg |-> BME280_REG_DIG_H4, len |-> 1],
                         [reg |-> BME280_REG_DIG_H4 + 1, len |-> 1],
                         [reg |-> BME280_REG_DIG_H5 + 1, len |-> 1],
                         [reg |-> BME280_REG_DIG_H5, len |-> 1] >>
                 ELSE << [reg |-> BME280_REG_DIG_H4 + 1, len |-> 1],
                         [reg |-> BME280_REG_DIG_H4, len |-> 1],
                         [reg |-> BME280_REG_DIG_H5, len |-> 1],
                         [reg |-> BME280_REG_DIG_H5 + 1, len |-> 1] >>)
             \o << [reg |-> BME280_REG_DIG_H6, len |-> 1] >>)

\* readCoefficients(): the coefficients and the bus record afterwards; fail is
\* the set of positions in CoefPlan whose transaction fails.
readCoefficients(m, id, old, b, fail) ==
    LET plan   == CoefPlan(id, b)
        ok(i)  == i \notin fail
        \* position of the left and of the right operand of dig_H4 and dig_H5
        l4     == IF b = "LR" THEN 16 ELSE 17
        r4     == IF b = "LR" THEN 17 ELSE 16
        l5     == IF b = "LR" THEN 18 ELSE 19
        r5     == IF b = "LR" THEN 19 ELSE 18
        u16(i) == read16_LE(m, plan[i].reg, ok(i), b)
        s16(i) == readS16_LE(m, plan[i].reg, ok(i), b)
        u8(i)  == read8(m, plan[i].reg, ok(i))
        tp     == [T1 |-> u16(1), T2 |-> s16(2), T3 |-> s16(3),
                   P1 |-> u16(4), P2 |-> s16(5), P3 |-> s16(6), P4 |-> s16(7),
                   P5 |-> s16(8), P6 |-> s16(9), P7 |-> s16(10), P8 |-> s16(11),
                   P9 |-> s16(12)]
        h      == IF IsHumidityChip(id)
                  THEN [H1 |-> u8(13), H2 |-> s16(14), H3 |-> u8(15),
                        H4 |-> S16(BitOr(U16(S8(u8(l4)) * 16), BitAnd(u8(r4), 15))),
                        H5 |-> S16(BitOr(U16(S8(u8(l5)) * 16), u8(r5) \div 16)),
                        H6 |-> S8(u8(20))]
                  ELSE [H1 |-> old.H1, H2 |-> old.H2, H3 |-> old.H3,
                        H4 |-> old.H4, H5 |-> old.H5, H6 |-> old.H6]
    IN  [dig |-> tp @@ h,
         bus |-> [i \in 1..Len(plan) |->
                    RdTxn(plan[i].reg, plan[i].len, ok(i),
                          IF plan[i].len = 2 THEN read16(m, plan[i].reg, ok(i), b)
                          ELSE u8(i))]]

\* The arguments setSampling() takes when none is given (ErriezBMX280.h).
DefaultSampling ==
    [mode |-> BMX280_MODE_NORMAL, tempSampling |-> BMX280_SAMPLING_X16,
     pressSampling |-> BMX280_SAMPLING_X16, humSampling |-> BMX280_SAMPLING_X16,
     filter |-> BMX280_FILTER_OFF, standbyDuration |-> BMX280_STANDBY_MS_0_5]

\* setSampling(a) with the write of config moved behind the write that wakes
\* the device.
SamplingWritesConfigLast(id, a) ==
    << <<BMX280_REG_CTRL_MEAS, BMX280_MODE_SLEEP>> >>
    \o (IF IsHumidityChip(id) THEN << <<BME280_REG_CTRL_HUM, a.humSampling>> >> ELSE <<>>)
    \o << <<BMX280_REG_CTRL_MEAS,
            BitOr(BitOr(a.tempSampling * 32, a.pressSampling * 4), a.mode)>>,
          <<BMX280_REG_CONFIG, BitOr(a.standbyDuration * 32, a.filter * 4)>> >>

\* setSampling(a) without the write that puts the device to sleep first.
SamplingWritesAwake(id, a) ==
    (IF IsHumidityChip(id) THEN << <<BME280_REG_CTRL_HUM, a.humSampling>> >> ELSE <<>>)
    \o << <<BMX280_REG_CONFIG, BitOr(a.standbyDuration * 32, a.filter * 4)>>,
          <<BMX280_REG_CTRL_MEAS,
            BitOr(BitOr(a.tempSampling * 32, a.pressSampling * 4), a.mode)>> >>

\* The (register, value) writes of setSampling(a), in order.
SamplingWrites(id, a) ==
    << <<BMX280_REG_CTRL_MEAS, BMX280_MODE_SLEEP>> >>
    \o (IF IsHumidityChip(id) THEN << <<BME280_REG_CTRL_HUM, a.humSampling>> >> ELSE <<>>)
    \o << <<BMX280_REG_CONFIG, BitOr(a.standbyDuration * 32, a.filter * 4)>>,
          <<BMX280_REG_CTRL_MEAS,
            BitOr(BitOr(a.tempSampling * 32, a.pressSampling * 4), a.mode)>> >>

RECURSIVE WriteAll(_, _, _, _)
WriteAll(m, ws, i, fail) ==
    IF i > Len(ws) THEN [mem |-> m, bus |-> <<>>]
    ELSE LET w    == write8(m, ws[i][1], ws[i][2], i \notin fail)
             rest == WriteAll(w.mem, ws, i + 1, fail)
         IN  [mem |-> rest.mem, bus |-> <<w.txn>> \o rest.bus]

\* setSampling(a): the register file and the bus record afterwards.
setSamplingEff(m, id, a, fail) == WriteAll(m, SamplingWrites(id, a), 1, fail)

\* What the members without an initializer hold after construction: zeros
\* for an object in static storage, anything for one on the stack.
ZeroDig ==
    [T1 |-> 0, T2 |-> 0, T3 |-> 0, P1 |-> 0, P2 |-> 0, P3 |-> 0, P4 |-> 0,
     P5 |-> 0, P6 |-> 0, P7 |-> 0, P8 |-> 0, P9 |-> 0, H1 |-> 0, H2 |-> 0,
     H3 |-> 0, H4 |-> 0, H5 |-> 0, H6 |-> 0]

JunkDig ==
    [T1 |-> 43690, T2 |-> -21846, T3 |-> 21845, P1 |-> 1, P2 |-> 21845,
     P3 |-> -21846, P4 |-> 32767, P5 |-> -32768, P6 |-> 255, P7 |-> -256,
     P8 |-> 4660, P9 |-> -4660, H1 |-> 170, H2 |-> 21845, H3 |-> 85,
     H4 |-> -1366, H5 |-> 1365, H6 |-> -86]

(***************************************************************************)
(* The compensation formulas tabulated on the inputs the model reaches, so *)
(* that each is computed once; any other input is computed directly.       *)
(***************************************************************************)
TabDigs ==
    {ZeroDig, JunkDig} \cup
    UNION { { readCoefficients(DevPowerOn(d[1], CalImages[d[2]]), d[1], old, b, fail).dig :
                fail \in FailFrom(Len(CoefPlan(d[1], b))) } :
            d \in {e \in Devices : IsRecognized(e[1])}, old \in {ZeroDig, JunkDig},
            b \in Builds }

TabMems == {DevStore(DevPowerOn(0, CalImages[1]), s) : s \in Samples}

TabRawT == {read24(m, BMX280_REG_TEMP, ok) : m \in TabMems, ok \in BOOLEAN}

TabRawP == {read24(m, BMX280_REG_PRESS, ok) : m \in TabMems, ok \in BOOLEAN}

TabAdcH == {read16(m, BME280_REG_HUM, ok, b) : m \in TabMems, ok \in BOOLEAN, b \in Builds}

\* A function with every value computed.
Table(f) == f @@ <<>>

TabT == Table([k \in TabRawT \X TabDigs |-> CompensateT(k[1], k[2])])

TabP ==
    Table([k \in {<<TabT[<<rt, d>>].t_fine, rp, d>> : rt \in TabRawT, rp \in TabRawP, d \in TabDigs}
            |-> CompensateP(k[1], k[2], k[3])])

TabH ==
    Table([k \in {<<TabT[<<rt, d>>].t_fine, h, d>> : rt \in TabRawT, h \in TabAdcH, d \in TabDigs}
            |-> HumidityPre(k[1], k[2], k[3])])

\* tab[k] where the table has k, else v.
Lookup(tab, k, v) == IF k \in DOMAIN tab THEN tab[k] ELSE v

TemperatureOf(raw, d) == Lookup(TabT, <<raw, d>>, CompensateT(raw, d))

PressureOf(tf, raw, d) == Lookup(TabP, <<tf, raw, d>>, CompensateP(tf, raw, d))

HumidityOf(tf, adc_H, d) == Lookup(TabH, <<tf, adc_H, d>>, HumidityPre(tf, adc_H, d))

\* The value a call returns: flag for a bool, num / den for an integer or a
\* float that fits 32 bits, wide / den for one that needs 64.
NoRet == [flag |-> FALSE, num |-> 0, wide |-> Zero(8), den |-> 1]

\* What the last call computed on the way to its result: the raw temperature
\* it read, the _t_fine its formula used, whether it divided and by what, and
\* the humidity intermediate before and after the clamp.
NoCalc ==
    [rawT |-> Zero(4), tfUsed |-> 0, divided |-> FALSE, divisor |-> Zero(8),
     pre |-> 0, post |-> 0]

\* readTemperature() once read24 has returned raw: the formula, and the
\* store to _t_fine.
TemperatureResult(raw, d, ok) ==
    [raw |-> raw, bus |-> <<RdTxn(BMX280_REG_TEMP, 3, ok, ToInt32(raw))>>]
    @@ TemperatureOf(raw, d)

\* readTemperature(): reads the temperature registers and stores _t_fine.
readTemperatureEff(m, d, ok) == TemperatureResult(read24(m, BMX280_REG_TEMP, ok), d, ok)

\* The float readPressure() returns and the trace of its computation c.
PressureRecord(t, raw, c, ok) ==
    [t_fine |-> t.t_fine,
     val    |-> [NoRet EXCEPT !.wide = c.num, !.den = IF c.divided THEN 256 ELSE 1],
     bus    |-> t.bus \o <<RdTxn(BMX280_REG_PRESS, 3, ok, ToInt32(raw))>>,
     calc   |-> [NoCalc EXCEPT !.rawT = t.raw, !.tfUsed = t.t_fine,
                               !.divided = c.divided, !.divisor = c.divisor]]

\* readPressure() after readTemperature() returned t and read24 returned raw:
\* the formula on the _t_fine that t stored.
PressureResult(t, raw, d, ok) == PressureRecord(t, raw, PressureOf(t.t_fine, raw, d), ok)

\* readPressure() without the call of readTemperature(): the formula runs on
\* the _t_fine the session holds.
readPressureStale(m, tf, d, fail) ==
    PressureResult([raw |-> Zero(4), bus |-> <<>>, t_fine |-> tf, temperature |-> 0],
                   read24(m, BMX280_REG_PRESS, 1 \notin fail), d, 1 \notin fail)

\* readPressure() on a session holding _t_fine = tf: readTemperature() first,
\* then the pressure registers, then the formula.
readPressureEff(m, tf, d, fail) ==
    PressureResult(readTemperatureEff(m, d, 1 \notin fail),
                   read24(m, BMX280_REG_PRESS, 2 \notin fail), d, 2 \notin fail)

\* Lines 217-220 of readHumidity() on the intermediate pre, and the trace.
HumidityRecord(t, adc_H, pre, ok) ==
    [t_fine |-> t.t_fine,
     val    |-> [NoRet EXCEPT !.num = ScaleH(ClampH(pre)), !.den = 1024],
     bus    |-> t.bus \o <<RdTxn(BME280_REG_HUM, 2, ok, adc_H)>>,
     calc   |-> [NoCalc EXCEPT !.rawT = t.raw, !.tfUsed = t.t_fine,
                               !.pre = pre, !.post = ClampH(pre)]]

\* readHumidity() after readTemperature() returned t and read16 returned adc_H.
HumidityResult(t, adc_H, d, ok) ==
    HumidityRecord(t, adc_H, HumidityOf(t.t_fine, adc_H, d), ok)

\* readHumidity() on the BME280 without the call of readTemperature(): the
\* formula runs on the _t_fine the session holds.
readHumidityStale(m, tf, d, b, fail) ==
    HumidityResult([raw |-> Zero(4), bus |-> <<>>, t_fine |-> tf, temperature |-> 0],
                   read16(m, BME280_REG_HUM, 1 \notin fail, b), d, 1 \notin fail)

\* readHumidity() on the BME280, on a session holding _t_fine = tf:
\* readTemperature() first, then the humidity registers, then the formula.
readHumidityEff(m, tf, d, b, fail) ==
    HumidityResult(readTemperatureEff(m, d, 1 \notin fail),
                   read16(m, BME280_REG_HUM, 2 \notin fail, b), d, 2 \notin fail)

Uninitialized == {<<0, ZeroDig>>, <<CHIP_ID_BME280, JunkDig>>}

\* The record of a call: the method, its arguments in the order of the
\* declaration, whether it has returned, and the value returned.
Call(op, arg, done, val) == [op |-> op, arg |-> arg, done |-> done, val |-> val]

\* ErriezBMX280(i2cAddr): only _i2cAddr and _t_fine are initialized.
Init ==
    /\ pc = "idle"
    /\ t_fine = 0
    /\ \E u \in Uninitialized : chipID = u[1] /\ dig = u[2]
    /\ build \in Builds
    /\ \E d \in Devices : mem = DevPowerOn(d[1], CalImages[d[2]])
    /\ bus = <<>>
    /\ call = Call("ErriezBMX280", <<>>, TRUE, NoRet)
    /\ calc = NoCalc

\* begin(), lines 58-64: the identity read and the check of it.
begin_probe ==
    /\ pc = "idle"
    /\ \E fail \in FailFrom(1) :
        LET ok == 1 \notin fail
            id == read8(mem, BME280_REG_CHIPID, ok)
        IN  /\ chipID' = id
            /\ bus' = <<RdTxn(BME280_REG_CHIPID, 1, ok, id)>>
            /\ IF IsRecognized(id)
               THEN /\ pc' = "reset"
                    /\ call' = Call("begin", <<>>, FALSE, NoRet)
               ELSE /\ pc' = "idle"
                    /\ call' = Call("begin", <<>>, TRUE, NoRet)
    /\ calc' = NoCalc
    /\ UNCHANGED <<t_fine, dig, build, mem>>

\* begin(), line 67: the soft reset.
begin_reset ==
    /\ pc = "reset"
    /\ \E fail \in FailFrom(1) :
        \E w \in {write8(mem, BME280_REG_RESET, RESET_KEY, 1 \notin fail)} :
            /\ mem' = w.mem
            /\ bus' = Append(bus, w.txn)
    /\ pc' = "poll"
    /\ UNCHANGED <<chipID, t_fine, dig, build, call, calc>>

NumBusy(b) == Cardinality({i \in 1..Len(b) : b[i].reg = BMX280_REG_STATUS})

\* begin(), lines 70-73: one evaluation of the loop condition.  The bus record
\* keeps the first MaxPolls busy polls and the poll that ends the loop.
begin_poll ==
    /\ pc = "poll"
    /\ \E fail \in FailFrom(1) :
        LET ok     == 1 \notin fail
            status == read8(mem, BMX280_REG_STATUS, ok)
            txn    == RdTxn(BMX280_REG_STATUS, 1, ok, status)
        IN  IF ImUpdate(status)
            THEN /\ pc' = "poll"
                 /\ bus' = IF NumBusy(bus) < MaxPolls THEN Append(bus, txn) ELSE bus
            ELSE /\ pc' = "coefficients"
                 /\ bus' = Append(bus, txn)
    /\ UNCHANGED <<chipID, t_fine, dig, build, mem, call, calc>>

\* begin(), line 76.
begin_coefficients ==
    /\ pc = "coefficients"
    /\ \E fail \in FailFrom(Len(CoefPlan(chipID, build))) :
        \E r \in {readCoefficients(mem, chipID, dig, build, fail)} :
            /\ dig' = r.dig
            /\ bus' = bus \o r.bus
    /\ pc' = "sampling"
    /\ UNCHANGED <<chipID, t_fine, build, mem, call, calc>>

\* begin(), lines 79-85: the default configuration, and the return.
begin_sampling ==
    /\ pc = "sampling"
    /\ \E fail \in FailFrom(Len(SamplingWrites(chipID, DefaultSampling))) :
        \E r \in {setSamplingEff(mem, chipID, DefaultSampling, fail)} :
            /\ mem' = r.mem
            /\ bus' = bus \o r.bus
    /\ pc' = "idle"
    /\ call' = Call("begin", <<>>, TRUE, [NoRet EXCEPT !.flag = TRUE])
    /\ UNCHANGED <<chipID, t_fine, dig, build, calc>>

\* getChipID() reading the identity register again instead of returning the
\* member.
getChipIDProbe ==
    /\ pc = "idle"
    /\ \E fail \in FailFrom(1) :
        \E id \in {read8(mem, BME280_REG_CHIPID, 1 \notin fail)} :
            /\ chipID' = id
            /\ bus' = <<RdTxn(BME280_REG_CHIPID, 1, 1 \notin fail, id)>>
            /\ call' = Call("getChipID", <<>>, TRUE, [NoRet EXCEPT !.num = id])
    /\ calc' = NoCalc
    /\ UNCHANGED <<pc, t_fine, dig, build, mem>>

\* getChipID(): returns _chipID.
getChipID ==
    /\ pc = "idle"
    /\ bus' = <<>>
    /\ call' = Call("getChipID", <<>>, TRUE, [NoRet EXCEPT !.num = chipID])
    /\ calc' = NoCalc
    /\ UNCHANGED <<pc, chipID, t_fine, dig, build, mem>>

readTemperature ==
    /\ pc = "idle"
    /\ \E fail \in FailFrom(1) :
        \E r \in {readTemperatureEff(mem, dig, 1 \notin fail)} :
            /\ t_fine' = r.t_fine
            /\ bus' = r.bus
            /\ call' = Call("readTemperature", <<>>, TRUE,
                            [NoRet EXCEPT !.num = r.temperature, !.den = 100])
            /\ calc' = [NoCalc EXCEPT !.rawT = r.raw]
    /\ UNCHANGED <<pc, chipID, dig, build, mem>>

readPressure ==
    /\ pc = "idle"
    /\ \E fail \in FailFrom(2) :
        \E r \in {readPressureEff(mem, t_fine, dig, fail)} :
            /\ t_fine' = r.t_fine
            /\ bus' = r.bus
            /\ call' = Call("readPressure", <<>>, TRUE, r.val)
            /\ calc' = r.calc
    /\ UNCHANGED <<pc, chipID, dig, build, mem>>

\* Sea level pressures (hPa) readAltitude is called with.
SeaLevels == {1013}

\* readAltitude(seaLevel) as a function of a pressure it is given: no call
\* of readPressure().
readAltitudeGiven ==
    /\ pc = "idle"
    /\ \E seaLevel \in SeaLevels :
        call' = Call("readAltitude", <<seaLevel>>, TRUE, NoRet)
    /\ bus' = <<>>
    /\ calc' = NoCalc
    /\ UNCHANGED <<pc, chipID, t_fine, dig, build, mem>>

\* readAltitude(seaLevel): atmospheric = readPressure() / 100.0F, then the
\* closed formula 44330.0 * (1.0 - pow(atmospheric / seaLevel, 0.1903)), which
\* is kept as its two arguments: atmospheric as the value, seaLevel in arg.
readAltitude ==
    /\ pc = "idle"
    /\ \E seaLevel \in SeaLevels, fail \in FailFrom(2) :
        \E r \in {readPressureEff(mem, t_fine, dig, fail)} :
            /\ t_fine' = r.t_fine
            /\ bus' = r.bus
            /\ call' = Call("readAltitude", <<seaLevel>>, TRUE,
                            [r.val EXCEPT !.den = @ * 100])
            /\ calc' = r.calc
    /\ UNCHANGED <<pc, chipID, dig, build, mem>>

readHumidity ==
    /\ pc = "idle"
    /\ IF ~IsHumidityChip(chipID)
       THEN /\ bus' = <<>>
            /\ call' = Call("readHumidity", <<>>, TRUE, NoRet)
            /\ calc' = NoCalc
            /\ t_fine' = t_fine
       ELSE \E fail \in FailFrom(2) :
            \E r \in {readHumidityEff(mem, t_fine, dig, build, fail)} :
                /\ t_fine' = r.t_fine
                /\ bus' = r.bus
                /\ call' = Call("readHumidity", <<>>, TRUE, r.val)
                /\ calc' = r.calc
    /\ UNCHANGED <<pc, chipID, dig, build, mem>>

\* The arguments of setSampling in the order of its declaration.
SamplingArgs(a) ==
    <<a.mode, a.tempSampling, a.pressSampling, a.humSampling, a.filter, a.standbyDuration>>

\* Arguments setSampling is called with: the defaults, and a forced-mode
\* configuration with the 500 ms standby and the x16 filter.
Samplings ==
    { DefaultSampling,
      [mode |-> BMX280_MODE_FORCED, tempSampling |-> 1, pressSampling |-> 2,
       humSampling |-> 3, filter |-> BMX280_FILTER_X16,
       standbyDuration |-> BMX280_STANDBY_MS_500] }

setSampling ==
    /\ pc = "idle"
    /\ \E a \in Samplings :
        \E fail \in FailFrom(Len(SamplingWrites(chipID, a))) :
            \E r \in {setSamplingEff(mem, chipID, a, fail)} :
                /\ mem' = r.mem
                /\ bus' = r.bus
                /\ call' = Call("setSampling", SamplingArgs(a), TRUE, NoRet)
    /\ calc' = NoCalc
    /\ UNCHANGED <<pc, chipID, t_fine, dig, build>>

\* The device ends the copy of its NVM to the image registers.
DeviceCopyDone ==
    /\ BitAnd(mem[BMX280_REG_STATUS], Pow2(STATUS_IM_UPDATE)) # 0
    /\ mem' = [mem EXCEPT ![BMX280_REG_STATUS] = @ - Pow2(STATUS_IM_UPDATE)]
    /\ UNCHANGED <<pc, chipID, t_fine, dig, build, bus, call, calc>>

\* The device, out of sleep mode, ends a conversion and stores its result.
DeviceMeasure ==
    /\ ModeBits(mem[BMX280_REG_CTRL_MEAS]) # BMX280_MODE_SLEEP
    /\ \E s \in Samples : mem' = DevStore(mem, s)
    /\ UNCHANGED <<pc, chipID, t_fine, dig, build, bus, call, calc>>

Next ==
    \/ begin_probe
    \/ begin_reset
    \/ begin_poll
    \/ begin_coefficients
    \/ begin_sampling
    \/ getChipID
    \/ readTemperature
    \/ readPressure
    \/ readAltitude
    \/ readHumidity
    \/ setSampling
    \/ DeviceCopyDone
    \/ DeviceMeasure

Spec == Init /\ [][Next]_vars

(***************************************************************************)
(* 4. Properties.  The bus record of a call is read through these sets of  *)
(* positions.                                                              *)
(***************************************************************************)
Polls == {i \in DOMAIN bus : bus[i].op = "read" /\ bus[i].reg = BMX280_REG_STATUS}

ClearPolls == {i \in Polls : bus[i].val % 2 = 0}

CoefReads == {i \in DOMAIN bus : bus[i].op = "read" /\ bus[i].reg \in CalRegs}

ConfigWrites == {i \in DOMAIN bus : bus[i].op = "write" /\ bus[i].reg \in CtrlRegs}

\* The (register, value) pairs of the bus records from position i on.
WritesFrom(i) == [k \in 1..(Len(bus) - i + 1) |-> <<bus[i + k - 1].reg, bus[i + k - 1].val>>]

\* C1: when the identity read of begin returns a value other than 0x58 and
\* 0x60, begin returns false and the identity read is the only bus
\* transaction of the call: no register write, no status read and no
\* coefficient read.
C1_UnrecognizedIdentity ==
    (call.op = "begin" /\ bus[1].val \notin {CHIP_ID_BMP280, CHIP_ID_BME280})
        => /\ pc = "idle"
           /\ call.done
           /\ call.val.flag = FALSE
           /\ Len(bus) = 1
           /\ bus[1].op = "read"
           /\ bus[1].reg = BME280_REG_CHIPID

\* begin has returned false on a device whose identity register reads 0x00.
C1_Witness ==
    /\ call.op = "begin"
    /\ call.done
    /\ call.val.flag = FALSE
    /\ bus[1].ok
    /\ bus[1].val = 0
    /\ mem[BME280_REG_CHIPID] = 0

AllSamplings ==
    [mode : BMX280_Mode_e, tempSampling : BMX280_Sampling_e,
     pressSampling : BMX280_Sampling_e, humSampling : BMX280_Sampling_e,
     filter : BMX280_Filter_e, standbyDuration : BMX280_Standby_e]

\* The writes C3 states on a session of identity id for the arguments a =
\* <<mode, tempSampling, pressSampling, humSampling, filter, standbyDuration>>.
C3_Stated(id, a) ==
    << <<BMX280_REG_CTRL_MEAS, 0>> >>
    \o (IF id = CHIP_ID_BME280 THEN << <<BME280_REG_CTRL_HUM, a[4]>> >> ELSE <<>>)
    \o << <<BMX280_REG_CONFIG, a[6] * 32 + a[5] * 4>>,
          <<BMX280_REG_CTRL_MEAS, a[2] * 32 + a[3] * 4 + a[1]>> >>

C3_AllArguments ==
    \A a \in AllSamplings : \A id \in {CHIP_ID_BMP280, CHIP_ID_BME280, 0} :
        SamplingWrites(id, a) = C3_Stated(id, SamplingArgs(a))

\* C3: the bus transactions of setSampling are exactly these writes, in this
\* order: 0x00 to ctrl_meas; humSampling to ctrl_hum, on a session of identity
\* 0x60 only; (standbyDuration << 5) | (filter << 2) to config;
\* (tempSampling << 5) | (pressSampling << 2) | mode to ctrl_meas.  The 500 ms
\* standby with the x16 filter is written as 0x90.  This is so for the calls
\* of the sessions, and for every argument list of the enumerations.
C3_SamplingWrites ==
    /\ call.op = "setSampling" =>
        /\ Len(bus) = Len(C3_Stated(chipID, call.arg))
        /\ \A i \in DOMAIN bus : bus[i].op = "write"
        /\ WritesFrom(1) = C3_Stated(chipID, call.arg)
        /\ (call.arg[6] = 4 /\ call.arg[5] = 4) =>
                bus[Len(bus) - 1].val = 144
        /\ chipID # CHIP_ID_BME280 => \A i \in DOMAIN bus : bus[i].reg # BME280_REG_CTRL_HUM
    /\ C3_AllArguments

\* setSampling has written the 500 ms standby and the x16 filter on a BME280.
C3_Witness ==
    /\ call.op = "setSampling"
    /\ chipID = CHIP_ID_BME280
    /\ call.arg[6] = 4
    /\ call.arg[5] = 4
    /\ Len(bus) = 4
    /\ bus[3].ok
    /\ mem[BMX280_REG_CONFIG] = 144

\* The step is a call of the method op: the device's own steps leave the
\* session and the record of the last call as they are, and a call that
\* leaves them as they are is a step that changes nothing.
Called(op) ==
    /\ pc = "idle"
    /\ call'.op = op
    /\ <<chipID, t_fine, dig, bus, call, calc>>' # <<chipID, t_fine, dig, bus, call, calc>>

\* The temperature registers as read24 returns them when the transfer
\* completes.
RawTemperature == read24(mem, BMX280_REG_TEMP, TRUE)

\* C4 as stated: every call of readPressure or readHumidity, in any session
\* state, ends with _t_fine equal to the temperature formula on the raw
\* temperature the registers hold (stated for the calls whose bus transfers
\* all complete).
C4_EveryCallRecomputes ==
    [][((Called("readPressure") \/ Called("readHumidity"))
            /\ \A i \in DOMAIN bus' : bus'[i].ok)
            => t_fine' = TemperatureOf(RawTemperature, dig).t_fine]_vars

\* The call read the temperature registers first, stored the formula's value
\* on what that read returned, and ran its own formula on the stored value.
C4_Refreshed ==
    /\ Len(bus') = 2
    /\ bus'[1].op = "read" /\ bus'[1].reg = BMX280_REG_TEMP
    /\ bus'[1].ok => calc'.rawT = RawTemperature
    /\ ~bus'[1].ok => calc'.rawT = <<255, 255, 255, 255>>
    /\ t_fine' = TemperatureOf(calc'.rawT, dig).t_fine
    /\ calc'.tfUsed = t_fine'

\* C4, amended: every call of readPressure, and every call of readHumidity on
\* a session whose chip identity is 0x60, first reads the temperature
\* registers, stores as _t_fine the temperature formula on the value that read
\* returned (the registers' content when the transfer completes, 0xFFFFFFFF
\* when it fails) and runs the pressure or humidity formula on that stored
\* value; readHumidity on any other session leaves _t_fine as it was and runs
\* no formula.
C4_RecomputesFineTemperature ==
    [][/\ Called("readPressure") => C4_Refreshed
       /\ (Called("readHumidity") /\ chipID = CHIP_ID_BME280) => C4_Refreshed
       /\ (Called("readHumidity") /\ chipID # CHIP_ID_BME280)
            => (t_fine' = t_fine /\ calc' = NoCalc)]_vars

\* readPressure has returned on the conversion at 25 C, with the _t_fine of
\* that conversion stored and used.
C4_Witness ==
    /\ call.op = "readPressure"
    /\ bus[1].ok
    /\ calc.rawT = <<0, 237, 126, 0>>
    /\ t_fine = 128422
    /\ calc.tfUsed = 128422
    /\ calc.divided

\* C5: readPressure divides exactly when the divisor intermediate var1 is
\* not zero; when var1 is zero it returns 0 without dividing.  var1 is the
\* intermediate of the formula on the _t_fine just stored.
C5_ZeroDivisorGuard ==
    call.op \in {"readPressure", "readAltitude"}
        => /\ calc.divisor = PressureVar1(calc.tfUsed, dig)
           /\ calc.divided <=> calc.divisor # <<0, 0, 0, 0, 0, 0, 0, 0>>
           /\ (call.op = "readPressure" /\ ~calc.divided)
                => (call.val.wide = <<0, 0, 0, 0, 0, 0, 0, 0>> /\ call.val.den = 1)

\* readPressure has returned 0 on a session whose dig_P1 is 0.
C5_Witness ==
    /\ call.op = "readPressure"
    /\ dig.P1 = 0
    /\ dig.P2 # 0
    /\ bus[2].ok
    /\ ~calc.divided
    /\ call.val.wide = <<0, 0, 0, 0, 0, 0, 0, 0>>

\* C6: on a session of identity 0x60, readHumidity clamps the intermediate to
\* [0, 419430400]: below 0 gives 0, above 419430400 gives 419430400, anything
\* else is kept; the humidity is the clamped value >> 12, in [0, 102400], and
\* the value returned, humidity / 1024, is in [0, 100].
C6_HumidityClamp ==
    (call.op = "readHumidity" /\ chipID = CHIP_ID_BME280)
        => /\ calc.pre < 0 => calc.post = 0
           /\ calc.pre > 419430400 => calc.post = 419430400
           /\ (calc.pre >= 0 /\ calc.pre <= 419430400) => calc.post = calc.pre
           /\ call.val.num = calc.post \div 4096
           /\ call.val.den = 1024
           /\ call.val.num \in 0..102400
           /\ call.val.num <= 100 * call.val.den

\* readHumidity has returned 100 percent on an intermediate above the clamp.
C6_Witness ==
    /\ call.op = "readHumidity"
    /\ chipID = CHIP_ID_BME280
    /\ bus[2].ok
    /\ dig.H1 = 75
    /\ dig.H2 = 367
    /\ calc.pre > 419430400
    /\ calc.post = 419430400
    /\ call.val.num = 102400

\* C7: on a session whose chip identity is not 0x60, readHumidity returns 0
\* and makes no bus transaction, whatever the device holds.
C7_NoHumidityWithoutBME280 ==
    (call.op = "readHumidity" /\ chipID # CHIP_ID_BME280)
        => /\ bus = <<>>
           /\ call.val.num = 0
           /\ call.val.den = 1

\* readHumidity has returned on a BMP280 session while the device held a
\* conversion result.
C7_Witness ==
    /\ call.op = "readHumidity"
    /\ chipID = CHIP_ID_BMP280
    /\ mem[BMX280_REG_TEMP] = 126
    /\ call.val.num = 0
    /\ bus = <<>>

\* C8 as stated: a begin in which a coefficient read failed at the transport
\* does not report success.
C8_CoefficientFailureSurfaced ==
    (call.op = "begin" /\ call.done /\ \E i \in CoefReads : ~bus[i].ok)
        => call.val.flag = FALSE

\* The identity read of the call with bus record b failed at the transport.
IdentityReadFailed(b) == ~b[1].ok

\* The identity read of the call with bus record b completed and returned an
\* unrecognized value.
IdentityUnrecognized(b) == b[1].ok /\ b[1].val \notin {CHIP_ID_BMP280, CHIP_ID_BME280}

\* C9 as stated: of two calls of begin in a row on the same session, one with
\* a failed identity read and one with a completed read of an unrecognized
\* value, the caller can tell the outcomes apart by the value returned or by
\* the state of the session.
C9_FailureDistinguished ==
    [][(/\ call.op = "begin" /\ call.done
        /\ Called("begin") /\ call'.done
        /\ \/ IdentityReadFailed(bus) /\ IdentityUnrecognized(bus')
           \/ IdentityUnrecognized(bus) /\ IdentityReadFailed(bus'))
            => <<call'.val, chipID', t_fine', dig'>> # <<call.val, chipID, t_fine, dig>>]_vars

\* The registers of the temperature and pressure coefficients, and of the
\* humidity coefficients.
CoefRegsTP == {BMX280_REG_DIG_T1 + 2 * k : k \in 0..11}

CoefRegsH == {BME280_REG_DIG_H1, BME280_REG_DIG_H2, BME280_REG_DIG_H3, BME280_REG_DIG_H4,
              BME280_REG_DIG_H4 + 1, BME280_REG_DIG_H5 + 1, BME280_REG_DIG_H6}

\* C10: coefficient registers are read by begin only, each coefficient once
\* in a begin, after the reset and after a poll that read the bit clear; and
\* no step of readTemperature, readPressure, readHumidity, readAltitude,
\* setSampling or getChipID changes a coefficient or the chip identity.
C10_CoefficientsSetByBeginOnly ==
    /\ [](call.op # "begin" => CoefReads = {})
    /\ []((call.op = "begin" /\ CoefReads # {}) =>
            /\ \E w \in DOMAIN bus : bus[w].op = "write" /\ bus[w].reg = BME280_REG_RESET
            /\ \E c \in ClearPolls : \A i \in CoefReads : c < i
            /\ {bus[i].reg : i \in CoefReads} =
                  IF chipID = CHIP_ID_BME280 THEN CoefRegsTP \cup CoefRegsH ELSE CoefRegsTP
            /\ Cardinality(CoefReads) = IF chipID = CHIP_ID_BME280 THEN 20 ELSE 12)
    /\ [][(\E op \in {"readTemperature", "readPressure", "readHumidity", "readAltitude",
                        "setSampling", "getChipID"} : Called(op))
                => UNCHANGED <<dig, chipID>>]_vars

\* The session still holds the identity and the coefficients begin read from
\* the BME280, after calls of setSampling and readHumidity.
C10_Witness ==
    /\ call.op = "readHumidity"
    /\ chipID = CHIP_ID_BME280
    /\ dig.T1 = 27504
    /\ dig.H2 = 367
    /\ mem[BMX280_REG_CONFIG] = 144

\* The 16-bit value of the device bytes b0 at reg and b1 at reg + 1, read as
\* b0 + 256 * b1, and the two's-complement readings of 16 and of 8 bits.
C11_Unsigned16(reg) == mem[reg] + 256 * mem[reg + 1]

C11_Signed16(reg) ==
    IF C11_Unsigned16(reg) >= 32768 THEN C11_Unsigned16(reg) - 65536 ELSE C11_Unsigned16(reg)

C11_Signed8(reg) == IF mem[reg] >= 128 THEN mem[reg] - 256 ELSE mem[reg]

\* The coefficients as C11 derives them from the calibration memory.
C11_Decoded ==
    [T1 |-> C11_Unsigned16(BMX280_REG_DIG_T1), T2 |-> C11_Signed16(BMX280_REG_DIG_T2),
     T3 |-> C11_Signed16(BMX280_REG_DIG_T3), P1 |-> C11_Unsigned16(BMX280_REG_DIG_P1),
     P2 |-> C11_Signed16(BMX280_REG_DIG_P2), P3 |-> C11_Signed16(BMX280_REG_DIG_P3),
     P4 |-> C11_Signed16(BMX280_REG_DIG_P4), P5 |-> C11_Signed16(BMX280_REG_DIG_P5),
     P6 |-> C11_Signed16(BMX280_REG_DIG_P6), P7 |-> C11_Signed16(BMX280_REG_DIG_P7),
     P8 |-> C11_Signed16(BMX280_REG_DIG_P8), P9 |-> C11_Signed16(BMX280_REG_DIG_P9),
     H1 |-> mem[BME280_REG_DIG_H1], H2 |-> C11_Signed16(BME280_REG_DIG_H2),
     H3 |-> mem[BME280_REG_DIG_H3],
     H4 |-> C11_Signed8(BME280_REG_DIG_H4) * 16 + (mem[BME280_REG_DIG_H4 + 1] % 16),
     H5 |-> C11_Signed8(BME280_REG_DIG_H5 + 1) * 16 + (mem[BME280_REG_DIG_H5] \div 16),
     H6 |-> C11_Signed8(BME280_REG_DIG_H6)]

\* The coefficients readCoefficients assigns on a session of the given
\* identity.
C11_Assigned(id) ==
    {"T1", "T2", "T3", "P1", "P2", "P3", "P4", "P5", "P6", "P7", "P8", "P9"}
    \cup (IF id = CHIP_ID_BME280 THEN {"H1", "H2", "H3", "H4", "H5", "H6"} ELSE {})

\* A begin is past readCoefficients and every coefficient read of it
\* completed at the transport.
C11_CoefficientsRead ==
    /\ call.op = "begin"
    /\ pc \in {"sampling", "idle"}
    /\ CoefReads # {}
    /\ \A i \in CoefReads : bus[i].ok

\* C11 as stated: once readCoefficients has read the coefficients over a
\* working transport, every coefficient it assigns holds the value C11
\* derives from the device bytes (little-endian 16-bit values, unsigned for
\* dig_T1 and dig_P1, signed otherwise; the nibble-split dig_H4 and dig_H5
\* within [-2048, 2047]; 8-bit dig_H1, dig_H3 and signed dig_H6), and the
\* humidity registers are read on the 0x60 identity only.
C11_CoefficientDecode ==
    C11_CoefficientsRead =>
        /\ \A f \in C11_Assigned(chipID) : dig[f] = C11_Decoded[f]
        /\ chipID = CHIP_ID_BME280 =>
              (dig.H4 \in -2048..2047 /\ dig.H5 \in -2048..2047)
        /\ chipID # CHIP_ID_BME280 =>
              \A i \in CoefReads : bus[i].reg \in CoefRegsTP

\* The control registers of the device.
C12_Control(m) == <<m[BME280_REG_CTRL_HUM], m[BMX280_REG_CONFIG], m[BMX280_REG_CTRL_MEAS]>>

\* Every transaction of the bus record b completed.
C12_Complete(b) == \A i \in DOMAIN b : b[i].ok

\* In the bus record b every write of config comes after a write of ctrl_meas,
\* and the last one before it wrote mode bits 00.
C12_ConfigInSleep(b) ==
    \A i \in DOMAIN b :
        (b[i].op = "write" /\ b[i].reg = BMX280_REG_CONFIG) =>
            \E j \in 1..(i - 1) :
                /\ b[j].op = "write" /\ b[j].reg = BMX280_REG_CTRL_MEAS
                /\ ModeBits(b[j].val) = BMX280_MODE_SLEEP
                /\ \A k \in (j + 1)..(i - 1) :
                      ~(b[k].op = "write" /\ b[k].reg = BMX280_REG_CTRL_MEAS)

\* C12: in every call of setSampling the config register is written only
\* after a write of ctrl_meas with mode bits 00, no other write of ctrl_meas
\* in between; a call whose transfers complete leaves config and ctrl_meas
\* holding the values packed from its arguments, whatever mode the device was
\* in before; and a step that repeats the completed call (same arguments,
\* same bus record) leaves ctrl_hum, config and ctrl_meas as the first call
\* left them.
C12_SetSamplingIdempotent ==
    [][/\ Called("setSampling") =>
            /\ C12_ConfigInSleep(bus')
            /\ C12_Complete(bus') =>
                  /\ mem'[BMX280_REG_CONFIG] = call'.arg[6] * 32 + call'.arg[5] * 4
                  /\ mem'[BMX280_REG_CTRL_MEAS] =
                        call'.arg[2] * 32 + call'.arg[3] * 4 + call'.arg[1]
       /\ (/\ call.op = "setSampling" /\ call' = call /\ bus' = bus
           /\ C12_Complete(bus))
            => C12_Control(mem') = C12_Control(mem)]_vars

\* setSampling has returned on a BME280 that begin had put in normal mode or
\* an earlier setSampling in forced mode: the device holds the forced-mode
\* configuration with the 500 ms standby and the x16 filter.
C12_Witness ==
    /\ call.op = "setSampling"
    /\ call.arg = <<BMX280_MODE_FORCED, 1, 2, 3, BMX280_FILTER_X16, BMX280_STANDBY_MS_500>>
    /\ C12_Complete(bus)
    /\ dig.T1 = 27504
    /\ ModeBits(mem[BMX280_REG_CTRL_MEAS]) = BMX280_MODE_FORCED
    /\ C12_Control(mem) = <<3, 144, 41>>
    /\ mem[BMX280_REG_PRESS] = 101

\* The positions of the bus record b whose transaction failed.
C13_Failed(b) == {i \in DOMAIN b : ~b[i].ok}

\* The values of _t_fine a session with the coefficients of this one can hold
\* before a call: the constructor's 0, and what readTemperature stores on a
\* conversion result of the device or on a failed transfer.
C13_Held ==
    {0} \cup {TemperatureOf(read24(DevStore(mem, s), BMX280_REG_TEMP, ok), dig).t_fine :
                s \in Samples, ok \in BOOLEAN}

\* The value returned and the _t_fine stored, of the result r of a call.
C13_Pair(r) == <<r.val, r.t_fine>>

\* The value returned and the _t_fine afterwards when the method op is called
\* on a session that holds _t_fine = tf and is otherwise this one, with the
\* transactions in fail failing.
C13_Outcome(op, tf, fail) ==
    IF op = "readTemperature"
    THEN C13_Pair([val |-> [NoRet EXCEPT !.num = TemperatureOf(read24(mem, BMX280_REG_TEMP, 1 \notin fail), dig).temperature,
                                          !.den = 100],
                   t_fine |-> TemperatureOf(read24(mem, BMX280_REG_TEMP, 1 \notin fail), dig).t_fine])
    ELSE IF op = "readPressure"
    THEN C13_Pair(readPressureEff(mem, tf, dig, fail))
    ELSE IF chipID = CHIP_ID_BME280
    THEN C13_Pair(readHumidityEff(mem, tf, dig, build, fail))
    ELSE <<NoRet, tf>>

\* The call of op returns, and stores as _t_fine, what it does on every
\* session that differs from this one in the _t_fine held before the call.
C13_SameOnEverySession(op) ==
    \A tf \in C13_Held : C13_Outcome(op, tf, C13_Failed(bus')) = <<call'.val, t_fine'>>

\* C13 as stated: a call of readTemperature, readPressure or readHumidity
\* returns the same value and ends with the same _t_fine whatever _t_fine the
\* session held before the call.
C13_HistoryIndependent ==
    [][\A op \in {"readTemperature", "readPressure", "readHumidity"} :
            Called(op) => C13_SameOnEverySession(op)]_vars

\* C13, amended: a call of readTemperature, of readPressure, or of
\* readHumidity on a session whose chip identity is 0x60, returns the same
\* value and ends with the same _t_fine whatever _t_fine the session held
\* before the call (coefficients, data registers, build and transport outcome
\* being the same); readHumidity on any other session returns 0 whatever
\* _t_fine the session held, and leaves _t_fine as it was.
C13_Deterministic ==
    [][/\ \A op \in {"readTemperature", "readPressure"} :
            Called(op) => C13_SameOnEverySession(op)
       /\ (Called("readHumidity") /\ chipID = CHIP_ID_BME280)
            => C13_SameOnEverySession("readHumidity")
       /\ (Called("readHumidity") /\ chipID # CHIP_ID_BME280)
            => (call'.val = NoRet /\ t_fine' = t_fine)]_vars

\* readHumidity has returned on a BME280 whose data registers hold the reset
\* values, on a session that can have held the _t_fine of the conversion at
\* 25 C before: it stored the _t_fine of the reset values.
C13_Witness ==
    /\ call.op = "readHumidity"
    /\ chipID = CHIP_ID_BME280
    /\ dig.T1 = 27504
    /\ Len(bus) = 2 /\ bus[1].ok /\ bus[2].ok
    /\ calc.rawT = <<0, 0, 128, 0>>
    /\ ModeBits(mem[BMX280_REG_CTRL_MEAS]) # BMX280_MODE_SLEEP
    /\ 128422 \in C13_Held
    /\ t_fine # 128422
    /\ t_fine = calc.tfUsed

\* C14 as stated: readAltitude performs no bus read and no bus write.
C14_NoDeviceInteraction == call.op = "readAltitude" => bus = <<>>

\* The result r of readPressure is what this call of readAltitude stored and
\* passed on: the pressure, to be divided by 100, with the sea level given.
C14_FromPressure(r) ==
    /\ t_fine' = r.t_fine
    /\ call'.val = [r.val EXCEPT !.den = @ * 100]
    /\ call'.arg \in {<<seaLevel>> : seaLevel \in SeaLevels}

\* C14, amended: readAltitude takes the sea-level pressure only and gets the
\* pressure by calling readPressure: every call performs the two bus reads
\* of one readPressure (3 bytes at the temperature registers, then 3 bytes at
\* the pressure registers) and no write, leaves the device registers, the
\* coefficients and the chip identity as they were, stores the _t_fine that
\* readPressure stores, and its result is made of the pressure readPressure
\* returns and the sea-level pressure.
C14_AltitudeReadsPressure ==
    [][Called("readAltitude") =>
            /\ Len(bus') = 2
            /\ bus'[1].op = "read" /\ bus'[1].reg = BMX280_REG_TEMP /\ bus'[1].len = 3
            /\ bus'[2].op = "read" /\ bus'[2].reg = BMX280_REG_PRESS /\ bus'[2].len = 3
            /\ UNCHANGED <<mem, dig, chipID>>
            /\ C14_FromPressure(readPressureEff(mem, t_fine, dig, C13_Failed(bus')))]_vars

\* readAltitude has returned after the two reads of readPressure on the
\* conversion at 25 C, with the pressure divided and the sea level 1013 hPa.
C14_Witness ==
    /\ call.op = "readAltitude"
    /\ call.arg = <<1013>>
    /\ Len(bus) = 2 /\ bus[1].ok /\ bus[2].ok
    /\ bus[2].reg = BMX280_REG_PRESS
    /\ t_fine = 128422
    /\ calc.divided
    /\ call.val.den = 25600

\* The device holds im_update set: the copy of the NVM is not complete.
C15_DeviceBusy == BitAnd(mem[BMX280_REG_STATUS], Pow2(STATUS_IM_UPDATE)) # 0

\* C15 as stated: while the device holds im_update set, begin stays in the
\* status poll, however many polls it has made: it does not go on to read
\* the calibration, to write the configuration or to return.
C15_BlocksWhileBusy ==
    [][(pc = "poll" /\ C15_DeviceBusy /\ C15_DeviceBusy') => pc' = "poll"]_vars

====
